---- MODULE Spec2Model ----
(***************************************************************************)
(* Model of server-go/wrtc/tracks/peer.go: the Peer that bridges one       *)
(* transport connection (PeerConnection) to the SFU's track model.         *)
(*                                                                         *)
(* The state is the fields of every Peer, the observable state of the      *)
(* transport behind the PeerConnection interface, the position and locals  *)
(* of every goroutine (API callers, inbound-track handlers, the two        *)
(* goroutines of every relay) and the calls made on the callbacks.         *)
(***************************************************************************)
EXTENDS Integers, Sequences, FiniteSets, TLC

(***************************************************************************)
(* Bounds of the model.                                                    *)
(***************************************************************************)
MaxIceEvents == 3   \* ICE-state-change events delivered, over all peers
MaxOps       == 4   \* AddTrack / RemoveTrack / Tracks calls started
MaxRelayEvents == 3 \* packets read and ticker firings, over all relays
MaxEvents    == 2   \* events of all kinds when every part of the Peer runs

Peers        == {"p1", "p2"}
Callers      == {"c1", "c2"}          \* goroutines calling the Peer's API
TrackArgs    == {"t1", "t2"}          \* tracks handed to AddTrack/RemoveTrack
RemoteTracks == {"r1", "r2", "r3"}    \* inbound tracks the transport reports

None == "none"

\* a nil *webrtc.Track, and the element read past the end of a slice's array
NoTrack == [ptr |-> None, payloadType |-> 0, ssrc |-> 0, id |-> "", label |-> ""]
GarbageTrack == [ptr |-> "garbage", payloadType |-> 0, ssrc |-> 0, id |-> "",
                 label |-> ""]

\* peer.go:27  clientID of each Peer
ClientID(p) == IF p = "p1" THEN "alice" ELSE "bob"

\* the peerConnection on which a remote track arrives
RemotePeer(rt) == IF rt = "r3" THEN "p2" ELSE "p1"

\* remoteTrack.SSRC(), remoteTrack.PayloadType()
SSRC(rt) == CASE rt = "r1" -> 1111 [] rt = "r2" -> 2222 [] OTHER -> 3333
PayloadType(rt) == IF rt = "r2" THEN 111 ELSE 96

ICEStates == {"new", "checking", "connected", "completed",
              "disconnected", "failed", "closed"}

VARIABLES
    lastICE,           \* per peer: the state of the last ICE event delivered
    iceEvents,         \* number of ICE events delivered
    onCloseCalls,      \* the arguments of the calls of onClose, in order
    onTrackCalls,      \* the arguments of the calls of onTrack, in order
    rtpSenderByTrack,  \* per peer: the map, a set of <<track, sender>> entries
    pcSenders,         \* per peer: the senders the transport holds, each with
                       \* the track it was created for
    nextSender,        \* next sender the transport allocates
    caller,            \* per caller: position, arguments, locals, last result
    opCount,           \* API calls started
    localTracks,       \* per peer: the slice of local tracks
    localTracksMu,     \* per peer: the holder of the write lock, or None
    hPc,               \* per remote track: position of its handleTrack call
    localOf,           \* per remote track: localTrack of startCopyingTrack
    ticker,            \* per remote track: [running, c] of time.Ticker
    pliPc,             \* per remote track: position of the PLI goroutine
    copyPc,            \* per remote track: position of the copy goroutine
    rtpBuf,            \* per remote track: the copy goroutine's buffer
    rtpLen,            \* per remote track: i, the length of the last read
    readLog,           \* per remote track: packets Read returned, in order
    writeLog,          \* per remote track: Write calls on the local track
    rtcpLog,           \* per peer: packets passed to WriteRTCP, in order
    nRelayEvents       \* packets read and ticker firings, over all relays

iceVars    == <<lastICE, iceEvents, onCloseCalls>>
senderVars == <<rtpSenderByTrack, pcSenders, nextSender>>
callVars   == <<caller, opCount>>
trackVars  == <<localTracks, localTracksMu, hPc, localOf, onTrackCalls>>
relayVars  == <<ticker, pliPc, copyPc, rtpBuf, rtpLen, readLog, writeLog,
                rtcpLog, nRelayEvents>>
vars == <<iceVars, senderVars, callVars, trackVars, relayVars>>

(***************************************************************************)
(* NewPeer                                                                 *)
(***************************************************************************)
IdleCaller == [pc |-> "idle", id |-> 0, op |-> None, peer |-> None, track |-> None,
               rtpSender |-> 0, ret |-> None, calls |-> 0, tracks |-> <<>>]

\* peer.go:152  make([]byte, 1400), two bytes here
NewRtpBuf == <<0, 0>>

Init ==
    /\ lastICE = [p \in Peers |-> "new"]
    /\ iceEvents = 0
    /\ onCloseCalls = <<>>
    /\ onTrackCalls = <<>>
    /\ rtpSenderByTrack = [p \in Peers |-> {}]
    /\ pcSenders = [p \in Peers |-> {}]
    /\ nextSender = 1
    /\ caller = [c \in Callers |-> IdleCaller]
    /\ opCount = 0
    /\ localTracks = [p \in Peers |-> <<>>]
    /\ localTracksMu = [p \in Peers |-> None]
    /\ hPc = [rt \in RemoteTracks |-> "unpublished"]
    /\ localOf = [rt \in RemoteTracks |-> NoTrack]
    /\ ticker = [rt \in RemoteTracks |-> [running |-> FALSE, c |-> 0]]
    /\ pliPc = [rt \in RemoteTracks |-> None]
    /\ copyPc = [rt \in RemoteTracks |-> None]
    /\ rtpBuf = [rt \in RemoteTracks |-> NewRtpBuf]
    /\ rtpLen = [rt \in RemoteTracks |-> 0]
    /\ readLog = [rt \in RemoteTracks |-> <<>>]
    /\ writeLog = [rt \in RemoteTracks |-> <<>>]
    /\ rtcpLog = [p \in Peers |-> <<>>]
    /\ nRelayEvents = 0

(***************************************************************************)
(* handleICEConnectionStateChange                                          *)
(***************************************************************************)
\* the test with completed taken for a closing state as well
IsClosingStateWide(connectionState) ==
    connectionState \in {"closed", "disconnected", "failed", "completed"}

\* peer.go:84-86  the states on which the handler notifies
IsClosingState(connectionState) ==
    \/ connectionState = "closed"
    \/ connectionState = "disconnected"
    \/ connectionState = "failed"

\* The transport reports a change of the ICE state of p's connection.
handleICEConnectionStateChange(p, connectionState) ==
    /\ iceEvents < MaxIceEvents
    /\ connectionState # lastICE[p]
    /\ iceEvents' = iceEvents + 1
    /\ lastICE' = [lastICE EXCEPT ![p] = connectionState]
    /\ onCloseCalls' = IF IsClosingState(connectionState)
                       THEN Append(onCloseCalls, ClientID(p))
                       ELSE onCloseCalls
    /\ UNCHANGED <<senderVars, callVars, trackVars, relayVars>>

IceEvent == \E p \in Peers, s \in ICEStates : handleICEConnectionStateChange(p, s)

(***************************************************************************)
(* The sender map: a Go map as a set of entries                            *)
(***************************************************************************)
\* m[k]
MapHas(m, k) == \E e \in m : e[1] = k
MapGet(m, k) == (CHOOSE e \in m : e[1] = k)[2]
\* m[k] = v, with the assignment left out
MapPutLost(m, k, v) == m
\* m[k] = v
MapPut(m, k, v) == {e \in m : e[1] # k} \cup {<<k, v>>}
MapEntries(m, k) == {e \in m : e[1] = k}

(***************************************************************************)
(* AddTrack                                                                *)
(***************************************************************************)
\* peer.go:63-66  the call of peerConnection.AddTrack.  The transport either
\* fails, and AddTrack returns its error, or creates a sender.
AddTrackCall(c, p, track) ==
    /\ caller[c].pc = "idle"
    /\ opCount < MaxOps
    /\ opCount' = opCount + 1
    /\ \E ok \in BOOLEAN :
         IF ok
         THEN /\ pcSenders' = [pcSenders EXCEPT ![p] = @ \cup {<<track, nextSender>>}]
              /\ nextSender' = nextSender + 1
              /\ caller' = [caller EXCEPT ![c] =
                     [pc |-> "add_store", id |-> opCount + 1, op |-> "AddTrack", peer |-> p,
                      track |-> track, rtpSender |-> nextSender,
                      ret |-> None, calls |-> 1, tracks |-> <<>>]]
         ELSE /\ UNCHANGED <<pcSenders, nextSender>>
              /\ caller' = [caller EXCEPT ![c] =
                     [pc |-> "idle", id |-> opCount + 1, op |-> "AddTrack", peer |-> p,
                      track |-> track, rtpSender |-> 0,
                      ret |-> "ErrAddTrack", calls |-> 1, tracks |-> <<>>]]
    /\ UNCHANGED <<rtpSenderByTrack, iceVars, trackVars, relayVars>>

\* peer.go:67-68  p.rtpSenderByTrack[track] = rtpSender; return nil
AddTrackStore(c) ==
    /\ caller[c].pc = "add_store"
    /\ rtpSenderByTrack' = [rtpSenderByTrack EXCEPT ![caller[c].peer] =
           MapPut(@, caller[c].track, caller[c].rtpSender)]
    /\ caller' = [caller EXCEPT ![c].pc = "idle", ![c].ret = "nil"]
    /\ UNCHANGED <<pcSenders, nextSender, opCount, iceVars, trackVars, relayVars>>

(***************************************************************************)
(* RemoveTrack                                                             *)
(***************************************************************************)
\* the lookup without the test of ok: the zero sender goes to the transport
RemoveTrackLookupUnchecked(c, p, track) ==
    /\ caller[c].pc = "idle"
    /\ opCount < MaxOps
    /\ opCount' = opCount + 1
    /\ caller' = [caller EXCEPT ![c] =
           [pc |-> "rm_call", id |-> opCount + 1, op |-> "RemoveTrack",
            peer |-> p, track |-> track,
            rtpSender |-> IF MapHas(rtpSenderByTrack[p], track)
                          THEN MapGet(rtpSenderByTrack[p], track) ELSE 0,
            ret |-> None, calls |-> 0, tracks |-> <<>>]]
    /\ UNCHANGED <<senderVars, iceVars, trackVars, relayVars>>

\* peer.go:72-75  the lookup; without an entry RemoveTrack returns an error
RemoveTrackLookup(c, p, track) ==
    /\ caller[c].pc = "idle"
    /\ opCount < MaxOps
    /\ opCount' = opCount + 1
    /\ IF MapHas(rtpSenderByTrack[p], track)
       THEN caller' = [caller EXCEPT ![c] =
                [pc |-> "rm_call", id |-> opCount + 1, op |-> "RemoveTrack", peer |-> p,
                 track |-> track,
                 rtpSender |-> MapGet(rtpSenderByTrack[p], track),
                 ret |-> None, calls |-> 0, tracks |-> <<>>]]
       ELSE caller' = [caller EXCEPT ![c] =
                [pc |-> "idle", id |-> opCount + 1, op |-> "RemoveTrack", peer |-> p,
                 track |-> track, rtpSender |-> 0,
                 ret |-> "ErrNotFound", calls |-> 0, tracks |-> <<>>]]
    /\ UNCHANGED <<senderVars, iceVars, trackVars, relayVars>>

\* peer.go:76  return p.peerConnection.RemoveTrack(rtpSender).  The transport
\* either removes the sender or fails.
RemoveTrackCall(c) ==
    /\ caller[c].pc = "rm_call"
    /\ \E ok \in BOOLEAN :
         /\ pcSenders' = IF ok
                         THEN [pcSenders EXCEPT ![caller[c].peer] =
                                  {e \in @ : e[2] # caller[c].rtpSender}]
                         ELSE pcSenders
         /\ caller' = [caller EXCEPT ![c].pc = "idle",
                          ![c].calls = @ + 1,
                          ![c].ret = IF ok THEN "nil" ELSE "ErrRemoveTrack"]
    /\ UNCHANGED <<rtpSenderByTrack, nextSender, opCount, iceVars, trackVars,
                   relayVars>>

AddTrack == \/ \E c \in Callers, p \in Peers, t \in TrackArgs : AddTrackCall(c, p, t)
            \/ \E c \in Callers : AddTrackStore(c)

RemoveTrack == \/ \E c \in Callers, p \in Peers, t \in TrackArgs : RemoveTrackLookup(c, p, t)
               \/ \E c \in Callers : RemoveTrackCall(c)

(***************************************************************************)
(* startCopyingTrack and handleTrack                                       *)
(***************************************************************************)
\* peer.go:23  NewTrack(payloadType, ssrc, id, label): a new track; ptr is
\* the identity of the allocated object
NewTrack(ptr, payloadType, ssrc, id, label) ==
    [ptr |-> ptr, payloadType |-> payloadType, ssrc |-> ssrc,
     id |-> id, label |-> label]

\* HandleTrackStart without the return on a failed NewTrack: the goroutines
\* start and the nil track goes on to be appended
HandleTrackStartNoReturn(rt) ==
    /\ hPc[rt] = "unpublished"
    /\ \E ok \in BOOLEAN :
         /\ localOf' = [localOf EXCEPT ![rt] =
                IF ok THEN NewTrack(rt, PayloadType(rt), SSRC(rt), "video", "pion")
                ELSE NoTrack]
         /\ ticker' = [ticker EXCEPT ![rt] = [running |-> TRUE, c |-> 0]]
         /\ pliPc' = [pliPc EXCEPT ![rt] = "recv"]
         /\ copyPc' = [copyPc EXCEPT ![rt] = "read"]
         /\ hPc' = [hPc EXCEPT ![rt] = "lock"]
    /\ UNCHANGED <<localTracks, localTracksMu, onTrackCalls, rtpBuf, rtpLen,
                   readLog, writeLog, rtcpLog, nRelayEvents,
                   iceVars, senderVars, callVars>>

\* peer.go:92-98 and 110-178  handleTrack up to the return of
\* startCopyingTrack: NewTrack fails and the handler returns, or the local
\* track exists, the ticker runs and both goroutines are started.
HandleTrackStart(rt) ==
    /\ hPc[rt] = "unpublished"
    /\ \E ok \in BOOLEAN :
         IF ok
         THEN /\ localOf' = [localOf EXCEPT ![rt] =
                     NewTrack(rt, PayloadType(rt), SSRC(rt), "video", "pion")]
              /\ ticker' = [ticker EXCEPT ![rt] = [running |-> TRUE, c |-> 0]]
              /\ pliPc' = [pliPc EXCEPT ![rt] = "recv"]
              /\ copyPc' = [copyPc EXCEPT ![rt] = "read"]
              /\ hPc' = [hPc EXCEPT ![rt] = "lock"]
         ELSE /\ hPc' = [hPc EXCEPT ![rt] = "aborted"]
              /\ UNCHANGED <<localOf, ticker, pliPc, copyPc>>
    /\ UNCHANGED <<localTracks, localTracksMu, onTrackCalls, rtpBuf, rtpLen,
                   readLog, writeLog, rtcpLog, nRelayEvents,
                   iceVars, senderVars, callVars>>

\* peer.go:99  p.localTracksMu.Lock()
HandleTrackLock(rt) ==
    /\ hPc[rt] = "lock"
    /\ localTracksMu[RemotePeer(rt)] = None
    /\ localTracksMu' = [localTracksMu EXCEPT ![RemotePeer(rt)] = rt]
    /\ hPc' = [hPc EXCEPT ![rt] = "append"]
    /\ UNCHANGED <<localTracks, localOf, onTrackCalls, iceVars, senderVars,
                   callVars, relayVars>>

\* the append replaced by an assignment of a one-element slice
HandleTrackAppendReplace(rt) ==
    /\ hPc[rt] = "append"
    /\ localTracks' = [localTracks EXCEPT ![RemotePeer(rt)] = <<localOf[rt]>>]
    /\ hPc' = [hPc EXCEPT ![rt] = "unlock"]
    /\ UNCHANGED <<localTracksMu, localOf, onTrackCalls, iceVars, senderVars,
                   callVars, relayVars>>

\* the append left out
HandleTrackAppendSkipped(rt) ==
    /\ hPc[rt] = "append"
    /\ hPc' = [hPc EXCEPT ![rt] = "unlock"]
    /\ UNCHANGED <<localTracks, localTracksMu, localOf, onTrackCalls, iceVars,
                   senderVars, callVars, relayVars>>

\* peer.go:100  p.localTracks = append(p.localTracks, localTrack)
HandleTrackAppend(rt) ==
    /\ hPc[rt] = "append"
    /\ localTracks' = [localTracks EXCEPT ![RemotePeer(rt)] =
                           Append(@, localOf[rt])]
    /\ hPc' = [hPc EXCEPT ![rt] = "unlock"]
    /\ UNCHANGED <<localTracksMu, localOf, onTrackCalls, iceVars, senderVars,
                   callVars, relayVars>>

\* peer.go:101  p.localTracksMu.Unlock()
HandleTrackUnlock(rt) ==
    /\ hPc[rt] = "unlock"
    /\ localTracksMu' = [localTracksMu EXCEPT ![RemotePeer(rt)] = None]
    /\ hPc' = [hPc EXCEPT ![rt] = "ontrack"]
    /\ UNCHANGED <<localTracks, localOf, onTrackCalls, iceVars, senderVars,
                   callVars, relayVars>>

\* peer.go:103  p.onTrack(p.clientID, localTrack)
HandleTrackOnTrack(rt) ==
    /\ hPc[rt] = "ontrack"
    /\ onTrackCalls' = Append(onTrackCalls,
                              <<ClientID(RemotePeer(rt)), localOf[rt]>>)
    /\ hPc' = [hPc EXCEPT ![rt] = "done"]
    /\ UNCHANGED <<localTracks, localTracksMu, localOf, iceVars, senderVars,
                   callVars, relayVars>>

handleTrack ==
    \E rt \in RemoteTracks :
        \/ HandleTrackStart(rt)
        \/ HandleTrackLock(rt)
        \/ HandleTrackAppend(rt)
        \/ HandleTrackUnlock(rt)
        \/ HandleTrackOnTrack(rt)

(***************************************************************************)
(* Tracks                                                                  *)
(***************************************************************************)
\* the handlers of p that are between Lock and the end of the append
Appending(p) == {rt \in RemoteTracks : RemotePeer(rt) = p /\ hPc[rt] = "append"}

\* What a read of p.localTracks can return.  The read takes no lock: when it
\* runs together with an append it is a data race and may see the slice
\* before the append, after it, or the new length with the old array.
ReadLocalTracks(p) ==
    {localTracks[p]}
      \cup {Append(localTracks[p], localOf[rt]) : rt \in Appending(p)}
      \cup {Append(localTracks[p], GarbageTrack) : rt \in Appending(p)}

\* peer.go:106  entry of Tracks()
TracksCall(c, p) ==
    /\ caller[c].pc = "idle"
    /\ opCount < MaxOps
    /\ opCount' = opCount + 1
    /\ caller' = [caller EXCEPT ![c] =
           [pc |-> "tracks_read", id |-> opCount + 1, op |-> "Tracks",
            peer |-> p, track |-> None, rtpSender |-> 0, ret |-> None,
            calls |-> 0, tracks |-> <<>>]]
    /\ UNCHANGED <<iceVars, senderVars, trackVars, relayVars>>

\* peer.go:107  return p.localTracks
TracksRead(c) ==
    /\ caller[c].pc = "tracks_read"
    /\ \E ts \in ReadLocalTracks(caller[c].peer) :
         caller' = [caller EXCEPT ![c].pc = "idle", ![c].ret = "ok",
                                  ![c].tracks = ts]
    /\ UNCHANGED <<opCount, iceVars, senderVars, trackVars, relayVars>>

Tracks == \/ \E c \in Callers, p \in Peers : TracksCall(c, p)
          \/ \E c \in Callers : TracksRead(c)

(***************************************************************************)
(* The goroutines of a relay                                               *)
(***************************************************************************)
\* the packets a remote track delivers; each fits the buffer
Packets == {<<0>>, <<1>>, <<1, 1>>}

\* the runtime fires the ticker: the tick goes into the channel, whose
\* capacity is one, or is dropped when the channel is full
Tick(rt) ==
    /\ ticker[rt].running
    /\ nRelayEvents < MaxRelayEvents
    /\ nRelayEvents' = nRelayEvents + 1
    /\ ticker' = [ticker EXCEPT ![rt].c = 1]
    /\ UNCHANGED <<pliPc, copyPc, rtpBuf, rtpLen, readLog, writeLog, rtcpLog,
                   iceVars, senderVars, callVars, trackVars>>

\* peer.go:132  for range ticker.C: a tick is received
PliRecv(rt) ==
    /\ pliPc[rt] = "recv"
    /\ ticker[rt].c = 1
    /\ ticker' = [ticker EXCEPT ![rt].c = 0]
    /\ pliPc' = [pliPc EXCEPT ![rt] = "write"]
    /\ UNCHANGED <<copyPc, rtpBuf, rtpLen, readLog, writeLog, rtcpLog,
                   nRelayEvents, iceVars, senderVars, callVars, trackVars>>

\* PliWrite with a return on a failed WriteRTCP
PliWriteStopsOnError(rt) ==
    /\ pliPc[rt] = "write"
    /\ \E err \in {"nil", "ErrWriteRTCP"} :
         /\ rtcpLog' = [rtcpLog EXCEPT ![RemotePeer(rt)] =
               Append(@, [type |-> "PLI", mediaSSRC |-> SSRC(rt), err |-> err])]
         /\ pliPc' = [pliPc EXCEPT ![rt] =
               IF err = "nil" THEN "recv" ELSE "returned"]
    /\ UNCHANGED <<ticker, copyPc, rtpBuf, rtpLen, readLog, writeLog,
                   nRelayEvents, iceVars, senderVars, callVars, trackVars>>

\* peer.go:133-146  WriteRTCP of one PLI for the remote track's SSRC; an
\* error is logged and the loop goes on
PliWrite(rt) ==
    /\ pliPc[rt] = "write"
    /\ \E err \in {"nil", "ErrWriteRTCP"} :
         rtcpLog' = [rtcpLog EXCEPT ![RemotePeer(rt)] =
             Append(@, [type |-> "PLI", mediaSSRC |-> SSRC(rt), err |-> err])]
    /\ pliPc' = [pliPc EXCEPT ![rt] = "recv"]
    /\ UNCHANGED <<ticker, copyPc, rtpBuf, rtpLen, readLog, writeLog,
                   nRelayEvents, iceVars, senderVars, callVars, trackVars>>

\* remoteTrack.Read(rtpBuf): the packet is copied to the front of the buffer
ReadInto(buf, pkt) ==
    [i \in 1..Len(buf) |-> IF i <= Len(pkt) THEN pkt[i] ELSE buf[i]]

\* the whole buffer instead of rtpBuf[:i]
SliceWhole(buf, i) == buf
\* rtpBuf[:i]
Slice(buf, i) == SubSeq(buf, 1, i)

\* peer.go:151, 162, 173  return from the copy goroutine: the deferred
\* ticker.Stop() runs; Stop does not close or drain the channel
TickerStop(t) == [t EXCEPT !.running = FALSE]

\* CopyRead with one ticker per Peer: a read error stops the ticker of every
\* relay of the Peer
CopyReadStopsPeer(rt) ==
    /\ copyPc[rt] = "read"
    /\ \/ /\ nRelayEvents < MaxRelayEvents
          /\ nRelayEvents' = nRelayEvents + 1
          /\ \E pkt \in Packets :
               /\ rtpBuf' = [rtpBuf EXCEPT ![rt] = ReadInto(@, pkt)]
               /\ rtpLen' = [rtpLen EXCEPT ![rt] = Len(pkt)]
               /\ readLog' = [readLog EXCEPT ![rt] = Append(@, pkt)]
          /\ copyPc' = [copyPc EXCEPT ![rt] = "write"]
          /\ UNCHANGED ticker
       \/ /\ copyPc' = [copyPc EXCEPT ![rt] = "read_failed"]
          /\ ticker' = [o \in RemoteTracks |->
                           IF RemotePeer(o) = RemotePeer(rt)
                           THEN TickerStop(ticker[o]) ELSE ticker[o]]
          /\ UNCHANGED <<rtpBuf, rtpLen, readLog, nRelayEvents>>
    /\ UNCHANGED <<pliPc, writeLog, rtcpLog, iceVars, senderVars, callVars,
                   trackVars>>

\* peer.go:154-163  remoteTrack.Read: a packet, or an error that ends the
\* goroutine
CopyRead(rt) ==
    /\ copyPc[rt] = "read"
    /\ \/ /\ nRelayEvents < MaxRelayEvents
          /\ nRelayEvents' = nRelayEvents + 1
          /\ \E pkt \in Packets :
               /\ rtpBuf' = [rtpBuf EXCEPT ![rt] = ReadInto(@, pkt)]
               /\ rtpLen' = [rtpLen EXCEPT ![rt] = Len(pkt)]
               /\ readLog' = [readLog EXCEPT ![rt] = Append(@, pkt)]
          /\ copyPc' = [copyPc EXCEPT ![rt] = "write"]
          /\ UNCHANGED ticker
       \/ /\ copyPc' = [copyPc EXCEPT ![rt] = "read_failed"]
          /\ ticker' = [ticker EXCEPT ![rt] = TickerStop(@)]
          /\ UNCHANGED <<rtpBuf, rtpLen, readLog, nRelayEvents>>
    /\ UNCHANGED <<pliPc, writeLog, rtcpLog, iceVars, senderVars, callVars,
                   trackVars>>

\* CopyWrite without the exception for io.ErrClosedPipe
CopyWriteStrict(rt) ==
    /\ copyPc[rt] = "write"
    /\ \E err \in {"nil", "ErrClosedPipe", "ErrWrite"} :
         /\ writeLog' = [writeLog EXCEPT ![rt] =
                Append(@, [data |-> Slice(rtpBuf[rt], rtpLen[rt]), err |-> err])]
         /\ IF err # "nil"
            THEN /\ copyPc' = [copyPc EXCEPT ![rt] = "write_failed"]
                 /\ ticker' = [ticker EXCEPT ![rt] = TickerStop(@)]
            ELSE /\ copyPc' = [copyPc EXCEPT ![rt] = "read"]
                 /\ UNCHANGED ticker
    /\ UNCHANGED <<pliPc, rtpBuf, rtpLen, readLog, rtcpLog, nRelayEvents,
                   iceVars, senderVars, callVars, trackVars>>

\* peer.go:166-174  localTrack.Write(rtpBuf[:i]); io.ErrClosedPipe is
\* tolerated, any other error ends the goroutine
CopyWrite(rt) ==
    /\ copyPc[rt] = "write"
    /\ \E err \in {"nil", "ErrClosedPipe", "ErrWrite"} :
         /\ writeLog' = [writeLog EXCEPT ![rt] =
                Append(@, [data |-> Slice(rtpBuf[rt], rtpLen[rt]), err |-> err])]
         /\ IF err # "nil" /\ err # "ErrClosedPipe"
            THEN /\ copyPc' = [copyPc EXCEPT ![rt] = "write_failed"]
                 /\ ticker' = [ticker EXCEPT ![rt] = TickerStop(@)]
            ELSE /\ copyPc' = [copyPc EXCEPT ![rt] = "read"]
                 /\ UNCHANGED ticker
    /\ UNCHANGED <<pliPc, rtpBuf, rtpLen, readLog, rtcpLog, nRelayEvents,
                   iceVars, senderVars, callVars, trackVars>>

PliTask == \E rt \in RemoteTracks : Tick(rt) \/ PliRecv(rt) \/ PliWrite(rt)
CopyTask == \E rt \in RemoteTracks : CopyRead(rt) \/ CopyWrite(rt)

(***************************************************************************)
(* Properties of the ICE handler                                           *)
(***************************************************************************)
Count(seq, x) == Cardinality({i \in DOMAIN seq : seq[i] = x})

\* C1: whenever the last ICE event delivered to a Peer carried a terminal
\* state (disconnected, failed or closed), onClose has been invoked with that
\* Peer's clientID exactly once in total.
CloseExactlyOnce ==
    \A p \in Peers :
        lastICE[p] \in {"disconnected", "failed", "closed"}
            => Count(onCloseCalls, ClientID(p)) = 1

\* C13: onClose is called only by the step that delivers an ICE event whose
\* state is disconnected, failed or closed, once, with the clientID of the
\* Peer the event is for; an ICE event with any other state and every step
\* of any other operation leave the calls of onClose as they were.
OnCloseOnlyOnTerminalIce ==
    [][/\ onCloseCalls' # onCloseCalls
            => \E p \in Peers :
                 /\ iceEvents' = iceEvents + 1
                 /\ lastICE'[p] # lastICE[p]
                 /\ lastICE'[p] \in {"disconnected", "failed", "closed"}
                 /\ onCloseCalls' = Append(onCloseCalls, ClientID(p))
       /\ \A p \in Peers :
            (lastICE'[p] # lastICE[p]
               /\ lastICE'[p] \in {"new", "checking", "connected", "completed"})
            => onCloseCalls' = onCloseCalls
      ]_vars

\* onClose has been called once, for the second Peer, after an ICE event
\* with a state that is not terminal
OnCloseOnlyOnTerminalIceReached ==
    /\ onCloseCalls = <<ClientID("p2")>>
    /\ lastICE["p2"] = "failed"
    /\ lastICE["p1"] = "completed"

(***************************************************************************)
(* Properties of AddTrack and RemoveTrack                                  *)
(***************************************************************************)
\* the step in which caller c returns from op (every call has its own id)
Returns(c, op) ==
    /\ caller'[c] # caller[c]
    /\ caller'[c].pc = "idle"
    /\ caller'[c].op = op

\* the step in which caller c enters op
Starts(c, op) ==
    /\ caller'[c].id # caller[c].id
    /\ caller'[c].op = op

\* C2: when AddTrack(t) returns nil the sender map holds exactly one entry
\* for t, and when RemoveTrack(t) returns nil the map holds no entry for t.
RegistryConsistency ==
    [][\A c \in Callers :
          /\ (Returns(c, "AddTrack") /\ caller'[c].ret = "nil")
                => Cardinality(MapEntries(rtpSenderByTrack'[caller'[c].peer],
                                          caller'[c].track)) = 1
          /\ (Returns(c, "RemoveTrack") /\ caller'[c].ret = "nil")
                => ~MapHas(rtpSenderByTrack'[caller'[c].peer], caller'[c].track)
      ]_vars

\* C3: RemoveTrack(t) on a Peer whose sender map has no entry for t returns
\* the not-found error, makes no transport call and leaves the sender map and
\* the transport's senders as they were.
RemoveTrackNotFound ==
    [][\A c \in Callers :
          (/\ Starts(c, "RemoveTrack")
           /\ ~MapHas(rtpSenderByTrack[caller'[c].peer], caller'[c].track))
          => /\ caller'[c].pc = "idle"
             /\ caller'[c].ret = "ErrNotFound"
             /\ caller'[c].calls = 0
             /\ rtpSenderByTrack' = rtpSenderByTrack
             /\ pcSenders' = pcSenders
      ]_vars

\* a RemoveTrack on an unregistered track has failed on a Peer whose map
\* holds entries for other tracks
RemoveTrackNotFoundReached ==
    \E c \in Callers :
        /\ caller[c].pc = "idle"
        /\ caller[c].op = "RemoveTrack"
        /\ caller[c].ret = "ErrNotFound"
        /\ rtpSenderByTrack[caller[c].peer] # {}

\* C4: RemoveTrack(t) on a track with a sender entry calls the transport's
\* RemoveTrack once, returns the transport's outcome, and has removed the
\* entry from the map whether the transport call succeeded or failed.
RemoveTrackDropsEntry ==
    [][\A c \in Callers :
          (Returns(c, "RemoveTrack") /\ caller[c].pc = "rm_call")
          => /\ caller'[c].calls = 1
             /\ caller'[c].ret \in {"nil", "ErrRemoveTrack"}
             /\ ~MapHas(rtpSenderByTrack'[caller[c].peer], caller[c].track)
      ]_vars

\* C5: AddTrack(t) calls the transport's AddTrack exactly once; when the
\* transport fails AddTrack returns an error and the sender map is unchanged;
\* when it succeeds the sender it returned is recorded under t and AddTrack
\* returns nil.
AddTrackOnceAndRecords ==
    [][\A c \in Callers :
          Returns(c, "AddTrack")
          => /\ caller'[c].calls = 1
             /\ caller'[c].ret \in {"nil", "ErrAddTrack"}
             /\ (caller'[c].ret = "ErrAddTrack")
                   => rtpSenderByTrack' = rtpSenderByTrack
             /\ (caller'[c].ret = "nil")
                   => /\ <<caller'[c].track, caller'[c].rtpSender>> \in pcSenders'[caller'[c].peer]
                      /\ MapEntries(rtpSenderByTrack'[caller'[c].peer],
                                    caller'[c].track)
                            = {<<caller'[c].track, caller'[c].rtpSender>>}
      ]_vars

\* one AddTrack has failed on a track that already had an entry, and another
\* AddTrack has succeeded
AddTrackBothOutcomesReached ==
    \E c1, c2 \in Callers :
        /\ caller[c1].pc = "idle" /\ caller[c1].op = "AddTrack"
        /\ caller[c1].ret = "ErrAddTrack"
        /\ MapHas(rtpSenderByTrack[caller[c1].peer], caller[c1].track)
        /\ caller[c2].pc = "idle" /\ caller[c2].op = "AddTrack"
        /\ caller[c2].ret = "nil"

(***************************************************************************)
(* Concurrent use of the sender map                                        *)
(***************************************************************************)
\* the callers whose next step writes the sender map of p
MapWriters(p) == {c \in Callers : caller[c].pc = "add_store" /\ caller[c].peer = p}

\* C19: once the calls of AddTrack and RemoveTrack have returned, every sender
\* the transport created for a track and has not removed is the one the sender
\* map records for that track.
OneSenderPerTrack ==
    (\A c \in Callers : caller[c].pc = "idle")
        => \A p \in Peers :
               \A e \in pcSenders[p] :
                   /\ MapHas(rtpSenderByTrack[p], e[1])
                   /\ MapGet(rtpSenderByTrack[p], e[1]) = e[2]

\* C11: the accesses of AddTrack and RemoveTrack to the sender map of a Peer
\* exclude one another: no two callers are at a write of the same Peer's map
\* at the same time.
SenderMapExclusive ==
    \A p \in Peers : Cardinality(MapWriters(p)) <= 1

(***************************************************************************)
(* Properties of handleTrack and Tracks                                    *)
(***************************************************************************)
HandlersOf(p) == {rt \in RemoteTracks : RemotePeer(rt) = p}
\* the inbound-track events of p that have been handled with success
Handled(p) == {rt \in HandlersOf(p) : hPc[rt] = "done"}
\* no handleTrack of p is under way
HandlersQuiet(p) ==
    \A rt \in HandlersOf(p) : hPc[rt] \in {"unpublished", "aborted", "done"}

\* C12: a Tracks() that runs when k inbound-track events of the Peer have
\* been handled with success and none is under way returns exactly k local
\* tracks, one per event, each with the SSRC and the payload type of its
\* remote track; and the tracks are kept in the order of their appends (an
\* append adds at the end and changes no earlier element).
TracksAfterHandled ==
    [][/\ \A c \in Callers :
            (/\ caller[c].pc = "tracks_read"
             /\ Returns(c, "Tracks")
             /\ HandlersQuiet(caller[c].peer))
            => /\ Len(caller'[c].tracks) = Cardinality(Handled(caller[c].peer))
               /\ \A rt \in Handled(caller[c].peer) :
                     Cardinality({i \in DOMAIN caller'[c].tracks :
                         /\ caller'[c].tracks[i].ptr = rt
                         /\ caller'[c].tracks[i].ssrc = SSRC(rt)
                         /\ caller'[c].tracks[i].payloadType = PayloadType(rt)
                       }) = 1
       /\ \A p \in Peers :
            \/ localTracks'[p] = localTracks[p]
            \/ /\ Len(localTracks'[p]) = Len(localTracks[p]) + 1
               /\ SubSeq(localTracks'[p], 1, Len(localTracks[p])) = localTracks[p]
      ]_vars

\* Tracks() has returned two tracks after two handled events, the first with
\* SSRC 1111 and payload type 96
TracksAfterHandledReached ==
    \E c \in Callers :
        /\ caller[c].pc = "idle" /\ caller[c].op = "Tracks"
        /\ HandlersQuiet(caller[c].peer)
        /\ Cardinality(Handled(caller[c].peer)) = 2
        /\ Len(caller[c].tracks) = 2
        /\ caller[c].tracks[1].ssrc = 1111
        /\ caller[c].tracks[1].payloadType = 96
        /\ caller[c].tracks[2].ssrc = 2222

\* C15: the step in which NewTrack fails ends the handler and changes
\* nothing else: no goroutine and no ticker is started, the local tracks, the
\* lock and the calls of onTrack are as they were; and later handlers of the
\* same Peer are not held up by it (it does not hold the lock).
NewTrackFailureAborts ==
    [][\A rt \in RemoteTracks :
          /\ (hPc[rt] = "unpublished" /\ hPc'[rt] # "unpublished"
                 /\ localOf'[rt] = NoTrack)
             => /\ hPc'[rt] = "aborted"
                /\ UNCHANGED <<ticker, pliPc, copyPc, localTracks,
                               localTracksMu, onTrackCalls, localOf>>
          /\ hPc[rt] = "aborted"
             => /\ hPc'[rt] = "aborted"
                /\ pliPc'[rt] = None /\ copyPc'[rt] = None
                /\ ~ticker'[rt].running
                /\ localTracksMu'[RemotePeer(rt)] # rt
                /\ \A i \in DOMAIN localTracks'[RemotePeer(rt)] :
                      localTracks'[RemotePeer(rt)][i].ptr # rt
                /\ \A i \in DOMAIN onTrackCalls' : onTrackCalls'[i][2].ptr # rt
      ]_vars

\* NewTrack has failed for one inbound track of a Peer, and a later inbound
\* track of the same Peer has been handled and is the Peer's only local track
NewTrackFailureAbortsReached ==
    /\ hPc["r1"] = "aborted"
    /\ hPc["r2"] = "done"
    /\ localTracks["p1"] = <<localOf["r2"]>>
    /\ Len(onTrackCalls) = 1

Range(q) == {q[i] : i \in DOMAIN q}

\* C17: onTrack has been called exactly once, with the Peer's clientID and
\* the new local track, for every inbound track whose handler has returned
\* with success, and not at all for any other; and every track onTrack was
\* called with is in the local tracks of its Peer.
OnTrackOnceAfterAppend ==
    /\ \A rt \in RemoteTracks :
          Count(onTrackCalls, <<ClientID(RemotePeer(rt)), localOf[rt]>>)
              = IF hPc[rt] = "done" THEN 1 ELSE 0
    /\ \A i \in DOMAIN onTrackCalls :
          \E rt \in RemoteTracks :
              /\ hPc[rt] = "done"
              /\ onTrackCalls[i] = <<ClientID(RemotePeer(rt)), localOf[rt]>>
              /\ localOf[rt] \in Range(localTracks[RemotePeer(rt)])

\* onTrack has been called for inbound tracks of both Peers
OnTrackOnceAfterAppendReached ==
    /\ \A rt \in RemoteTracks : hPc[rt] = "done"
    /\ Len(onTrackCalls) = 3
    /\ \E i, j \in 1..3 : onTrackCalls[i][1] = "alice" /\ onTrackCalls[j][1] = "bob"

\* a relay whose goroutines have been started and whose copy goroutine has
\* not ended
Live(rt) ==
    /\ pliPc[rt] # None \/ copyPc[rt] # None
    /\ copyPc[rt] \notin {"read_failed", "write_failed"}

\* the places of a relay's local track in the local tracks of p
EntriesOf(p, rt) == {i \in DOMAIN localTracks[p] : localTracks[p][i] = localOf[rt]}

\* no local track is in the local tracks of two Peers, or twice in those of
\* one Peer
RegisteredOnce ==
    \A p, q \in Peers :
        \A i \in DOMAIN localTracks[p], j \in DOMAIN localTracks[q] :
            localTracks[p][i] = localTracks[q][j] => (p = q /\ i = j)

\* C18 as claimed: in every state every live relay has exactly one entry in
\* the local tracks of its Peer, and no local track is registered twice.
LiveRelayRegistered ==
    /\ \A rt \in RemoteTracks :
          Live(rt) => Cardinality(EntriesOf(RemotePeer(rt), rt)) = 1
    /\ RegisteredOnce

\* C18 as amended: every live relay whose handleTrack has completed its
\* append has exactly one entry in the local tracks of its Peer, a live relay
\* whose handleTrack has not yet appended has none, and no local track is
\* registered twice.
LiveRelayRegisteredAfterAppend ==
    /\ \A rt \in RemoteTracks :
          Live(rt) =>
              Cardinality(EntriesOf(RemotePeer(rt), rt))
                  = IF hPc[rt] \in {"unlock", "ontrack", "done"} THEN 1 ELSE 0
    /\ RegisteredOnce

\* two live relays of one Peer and one of the other are registered, each in
\* the local tracks of its own Peer
LiveRelayRegisteredReached ==
    /\ \A rt \in RemoteTracks : Live(rt) /\ hPc[rt] = "done"
    /\ Len(localTracks["p1"]) = 2
    /\ Len(localTracks["p2"]) = 1

(***************************************************************************)
(* Properties of the relay                                                 *)
(***************************************************************************)
WrittenData(rt) == [i \in DOMAIN writeLog[rt] |-> writeLog[rt][i].data]
Front(q) == SubSeq(q, 1, Len(q) - 1)
Alive(rt) == copyPc[rt] \in {"read", "write"}
PliCount(rt) ==
    Cardinality({i \in DOMAIN rtcpLog[RemotePeer(rt)] :
                    rtcpLog[RemotePeer(rt)][i].mediaSSRC = SSRC(rt)})

\* C6: the bytes of the writes on a relay's local track are, in order, the
\* packets read from its remote track: all of them when the copy goroutine is
\* not between a read and its write, all but the last one when it is; so
\* every packet is written before the next one is read.
CopyLaw ==
    \A rt \in RemoteTracks :
        WrittenData(rt) = IF copyPc[rt] = "write"
                          THEN Front(readLog[rt]) ELSE readLog[rt]

\* a live relay has forwarded a two-byte packet and then a one-byte packet,
\* both accepted by the local track
CopyLawReached ==
    \E rt \in RemoteTracks :
        /\ Alive(rt)
        /\ readLog[rt] = <<(<<1, 1>>), (<<0>>)>>
        /\ Len(writeLog[rt]) = 2
        /\ \A i \in 1..2 : writeLog[rt][i].err = "nil"

\* C7: the step in which a relay's read fails changes nothing of any other
\* relay (positions of both goroutines, ticker, buffer, packets read and
\* written), writes no RTCP packet, and leaves the local tracks, their lock,
\* the sender map, the transport's senders, the callers and the calls of
\* onClose and onTrack as they were.
FaultIsolation ==
    [][\A rt \in RemoteTracks :
          (copyPc[rt] = "read" /\ copyPc'[rt] = "read_failed")
          => /\ \A o \in RemoteTracks \ {rt} :
                   /\ copyPc'[o] = copyPc[o]
                   /\ pliPc'[o] = pliPc[o]
                   /\ ticker'[o] = ticker[o]
                   /\ rtpBuf'[o] = rtpBuf[o]
                   /\ rtpLen'[o] = rtpLen[o]
                   /\ readLog'[o] = readLog[o]
                   /\ writeLog'[o] = writeLog[o]
                   /\ hPc'[o] = hPc[o]
                   /\ localOf'[o] = localOf[o]
             /\ rtcpLog' = rtcpLog
             /\ localTracks' = localTracks
             /\ localTracksMu' = localTracksMu
             /\ rtpSenderByTrack' = rtpSenderByTrack
             /\ pcSenders' = pcSenders
             /\ caller' = caller
             /\ onCloseCalls' = onCloseCalls
             /\ onTrackCalls' = onTrackCalls
      ]_vars

\* one relay has stopped on a read error while another relay of the same
\* Peer is forwarding a packet with its ticker running, and a relay of the
\* other Peer is alive and has emitted a PLI
FaultIsolationReached ==
    \E rt, o1, o2 \in RemoteTracks :
        /\ copyPc[rt] = "read_failed"
        /\ o1 # rt /\ RemotePeer(o1) = RemotePeer(rt)
        /\ copyPc[o1] = "write" /\ ticker[o1].running
        /\ RemotePeer(o2) # RemotePeer(rt)
        /\ Alive(o2) /\ ticker[o2].running /\ PliCount(o2) > 0

\* C8: once a relay's copy goroutine has ended on a read error, no further
\* PLI for that relay's SSRC is written to the transport.
NoPliAfterReadFailure ==
    [][\A rt \in RemoteTracks :
          copyPc[rt] = "read_failed" => PliCount(rt)' = PliCount(rt)]_vars

\* C14: every firing of the periodic task (a tick received by the PLI
\* goroutine) is followed by one WriteRTCP of one PLI whose media SSRC is the
\* remote track's SSRC, whether the copy goroutine is alive or not, and
\* whatever WriteRTCP returns the goroutine goes back to wait for the next
\* tick; no other step writes RTCP.
KeyframeCadence ==
    [][/\ \A rt \in RemoteTracks :
            (pliPc[rt] = "write" /\ pliPc'[rt] # "write")
            => /\ pliPc'[rt] = "recv"
               /\ \E err \in {"nil", "ErrWriteRTCP"} :
                    rtcpLog' = [rtcpLog EXCEPT ![RemotePeer(rt)] =
                        Append(@, [type |-> "PLI", mediaSSRC |-> SSRC(rt),
                                   err |-> err])]
       /\ \A rt \in RemoteTracks :
            (pliPc[rt] = "recv" /\ pliPc'[rt] # "recv")
            => pliPc'[rt] = "write" /\ rtcpLog' = rtcpLog
       /\ rtcpLog' # rtcpLog
            => \E rt \in RemoteTracks : pliPc[rt] = "write" /\ pliPc'[rt] = "recv"
      ]_vars

\* a running relay's WriteRTCP has failed and its next firing has written a
\* PLI again
KeyframeCadenceReached ==
    \E rt \in RemoteTracks :
        /\ Alive(rt) /\ ticker[rt].running /\ pliPc[rt] = "recv"
        /\ Len(rtcpLog[RemotePeer(rt)]) = 2
        /\ rtcpLog[RemotePeer(rt)][1].err = "ErrWriteRTCP"
        /\ \A i \in 1..2 : rtcpLog[RemotePeer(rt)][i].mediaSSRC = SSRC(rt)

\* C16: a write on the local track that returns io.ErrClosedPipe, like one
\* that returns nil, sends the copy goroutine back to its read and leaves the
\* ticker and the PLI goroutine as they were; a write that returns any other
\* error ends the copy goroutine and stops the ticker, and a read error does
\* the same to the ticker, in both cases without emptying its channel.
WriteErrorHandling ==
    [][\A rt \in RemoteTracks :
          /\ (copyPc[rt] = "write" /\ copyPc'[rt] # "write")
             => LET w == writeLog'[rt][Len(writeLog'[rt])] IN
                /\ Len(writeLog'[rt]) = Len(writeLog[rt]) + 1
                /\ pliPc'[rt] = pliPc[rt]
                /\ w.err \in {"nil", "ErrClosedPipe"}
                     => copyPc'[rt] = "read" /\ ticker'[rt] = ticker[rt]
                /\ w.err \notin {"nil", "ErrClosedPipe"}
                     => /\ copyPc'[rt] = "write_failed"
                        /\ ticker'[rt] = [running |-> FALSE, c |-> ticker[rt].c]
          /\ (copyPc[rt] = "read" /\ copyPc'[rt] = "read_failed")
             => /\ ticker'[rt] = [running |-> FALSE, c |-> ticker[rt].c]
                /\ pliPc'[rt] = pliPc[rt]
      ]_vars

\* a relay whose first write returned io.ErrClosedPipe has forwarded a second
\* packet and its ticker still runs, and another relay has ended on a write
\* error with its ticker stopped
WriteErrorHandlingReached ==
    \E rt, o \in RemoteTracks :
        /\ Len(writeLog[rt]) = 2
        /\ writeLog[rt][1].err = "ErrClosedPipe"
        /\ Alive(rt) /\ ticker[rt].running
        /\ copyPc[o] = "write_failed" /\ ~ticker[o].running

\* the steps of the goroutines and of the ticker of one relay
RelayStep(rt) ==
    Tick(rt) \/ PliRecv(rt) \/ PliWrite(rt) \/ CopyRead(rt) \/ CopyWrite(rt)

\* C9: after a read failure both goroutines of the relay end: a relay whose
\* copy goroutine has ended on a read error and that can take no further
\* step has a PLI goroutine that has left its loop.
RelayTasksTerminate ==
    \A rt \in RemoteTracks :
        (copyPc[rt] = "read_failed" /\ ~ENABLED RelayStep(rt))
            => pliPc[rt] = "returned"

\* a relay that has stopped: its copy goroutine has ended, and its ticker is
\* stopped with no tick left for the PLI goroutine to send a PLI on; a relay
\* that was never started counts as stopped
Stopped(rt) ==
    /\ copyPc[rt] \notin {"read", "write"}
    /\ ~ticker[rt].running
    /\ ticker[rt].c = 0
    /\ pliPc[rt] # "write"

\* C20: once a Peer has received a terminal ICE state, all of its relays
\* eventually stop, also when the remote tracks never return a read error.
RelaysStopOnTerminalIce ==
    \A p \in Peers :
        IsClosingState(lastICE[p]) ~> (\A rt \in HandlersOf(p) : Stopped(rt))

\* C10: Tracks() never reads the local tracks of a Peer while a handleTrack
\* of that Peer holds localTracksMu for its append.
TracksExcludesAppend ==
    \A c \in Callers :
        caller[c].pc = "tracks_read" => Appending(caller[c].peer) = {}

(***************************************************************************)
(* Specifications.  The ICE handler, the sender map, the local-track       *)
(* registry and the relay goroutines read and write disjoint variables, so *)
(* each is also checked on its own: the behaviours of SpecICE, SpecSenders,*)
(* SpecTracks and SpecRelay are the behaviours of Spec in which only that  *)
(* part of the Peer takes steps.  In SpecRelay a handler runs up to the    *)
(* return of startCopyingTrack, which is where the goroutines start.       *)
(* SpecAll runs all parts together for a bounded number of events.         *)
(***************************************************************************)
NextICE == IceEvent
NextSenders == AddTrack \/ RemoveTrack
NextTracks == handleTrack \/ Tracks
NextRelay == (\E rt \in RemoteTracks : HandleTrackStart(rt)) \/ PliTask \/ CopyTask
Next == IceEvent \/ AddTrack \/ RemoveTrack \/ handleTrack \/ Tracks
           \/ PliTask \/ CopyTask

\* the events the environment has delivered: ICE events, API calls,
\* inbound tracks, packets and ticks
Events ==
    iceEvents + opCount + nRelayEvents
        + Cardinality({rt \in RemoteTracks : hPc[rt] # "unpublished"})

\* every part of the Peer runs, up to MaxEvents events in all
NextAll == Next /\ Events' <= MaxEvents

SpecICE == Init /\ [][NextICE]_vars
SpecSenders == Init /\ [][NextSenders]_vars
SpecTracks == Init /\ [][NextTracks]_vars
SpecRelay == Init /\ [][NextRelay]_vars
SpecAll == Init /\ [][NextAll]_vars

\* The Go scheduler runs every goroutine that can take a step: a handler or a
\* call that has started goes on to its end, the PLI goroutine receives a tick
\* that is in the channel and writes its PLI, the copy goroutine writes the
\* packet it has read.  Nothing makes the environment act: remoteTrack.Read
\* may block for ever, and no ICE event, call or inbound track need come.
GoroutinesRun ==
    /\ \A rt \in RemoteTracks :
          /\ WF_vars(HandleTrackLock(rt) \/ HandleTrackAppend(rt)
                        \/ HandleTrackUnlock(rt) \/ HandleTrackOnTrack(rt))
          /\ WF_vars(PliRecv(rt) \/ PliWrite(rt))
          /\ WF_vars(CopyWrite(rt))
    /\ \A c \in Callers :
          WF_vars(AddTrackStore(c) \/ RemoveTrackCall(c) \/ TracksRead(c))

FairSpecAll == SpecAll /\ GoroutinesRun
Spec == Init /\ [][Next]_vars
====
